---- MODULE Spec2Model ----
(***************************************************************************)
(* Model of marketing_ai_demo.py: the Streamlit script that segments an    *)
(* uploaded customer table, computes ROI metrics, and asks a text          *)
(* generation client for emails, social posts, ad copy and A/B variants.   *)
(*                                                                         *)
(* Representation.                                                         *)
(*  - A CSV cell is an option: <<v>> holds the value v, <<>> is pandas'    *)
(*    NaN (an empty cell).  A float is an exact fraction [num, den] in     *)
(*    lowest terms (rounding is not modelled); a float that pandas may     *)
(*    return as NaN is an option of a fraction.                            *)
(*  - A row is a function from the columns of the file to cells.           *)
(*  - df = [columns, rows]; a frame (df itself, a df[mask], a .head(n)) is *)
(*    the sequence of the index labels it keeps, in order.  Label i is the *)
(*    i-th row of the file (pandas counts from 0, the model from 1).       *)
(*  - st.* widgets that only render (charts, titles, columns) are left     *)
(*    out; st.error, st.success, st.metric and the expanders are state.    *)
(*  - The style widgets (tone, campaign type, sliders, check boxes) only   *)
(*    fill text into the prompt and decide no branch; they are left out.   *)
(***************************************************************************)
EXTENDS Integers, Sequences, FiniteSets, TLC

\* ------------------------------------------------------------- bounds
\* Longest table whose rows are drawn freely from SampleRows.
MaxRows == 2
\* Longest table overall; a table longer than MaxRows repeats SampleRows in order.
MaxLongRows == 11

\* ------------------------------------------------------------- cells
NaN == <<>>
Some(v) == <<v>>
IsNaN(c) == c = NaN
Val(c) == c[1]

RECURSIVE GCD(_, _)
GCD(a, b) == IF b = 0 THEN a ELSE GCD(b, a % b)

\* The float n / d (n >= 0, d > 0) as an exact fraction in lowest terms.
Frac(n, d) == LET g == GCD(n, d) IN [num |-> n \div g, den |-> d \div g]

\* ------------------------------------------------------------- input tables
AllColumns == {"customer_name", "engagement_score", "customer_segment",
               "loyalty_tier", "country", "purchase_history"}

\* The script itself treats 'country' as a column the file may lack.
ColumnSets == {AllColumns, AllColumns \ {"country"}}

FullRow(name, eng, seg, tier, country, purchases) ==
    [customer_name |-> Some(name), engagement_score |-> eng,
     customer_segment |-> seg, loyalty_tier |-> tier,
     country |-> country, purchase_history |-> purchases]

SampleRows ==
    << FullRow("Ann", Some(80), Some("regular"),  Some("gold"),     Some("US"), Some(2)),
       FullRow("Bob", Some(59), Some("newcomer"), Some("bronze"),   Some("CA"), Some(0)),
       FullRow("Cy",  Some(70), Some("regular"),  Some("platinum"), NaN,        Some(4)),
       FullRow("Dee", NaN,      NaN,              NaN,              Some("US"), NaN),
       FullRow("Eve", Some(60), Some("regular"),  Some("silver"),   Some("CA"), Some(1)) >>

NSamples == Len(SampleRows)

Project(row, cols) == [c \in cols |-> row[c]]

ShortTables ==
    UNION { [1..n -> 1..NSamples] : n \in 0..MaxRows }

LongTables ==
    { [k \in 1..n |-> ((k - 1) % NSamples) + 1] : n \in (MaxRows + 1)..MaxLongRows }

\* pd.read_csv(uploaded_file): every table the model feeds the script.
read_csv ==
    { [columns |-> cols,
       rows |-> [k \in 1..Len(t) |-> Project(SampleRows[t[k]], cols)]] :
         t \in ShortTables \cup LongTables, cols \in ColumnSets }


\* ------------------------------------------------------------- results
\* A Python expression either yields a value or raises.
Ok(x) == [exc |-> "none", v |-> <<x>>]
Raise(e) == [exc |-> e, v |-> <<>>]
Raised(r) == r.exc # "none"
Get(r) == r.v[1]

\* ------------------------------------------------------------- frames
Has(d, col) == col \in d.columns

\* df: every row of the table, in file order.
Whole(d) == [k \in 1..Len(d.rows) |-> k]

\* frame[mask]: mask is a boolean Series over the labels; the labels where it
\* is True are kept, in order.
Filter(frame, mask) == SelectSeq(frame, LAMBDA k : mask[k])

Min(a, b) == IF a < b THEN a ELSE b

\* head without the cap: the whole frame.
head_uncapped(frame, n) == frame

\* frame.head(n)
head(frame, n) == SubSeq(frame, 1, Min(n, Len(frame)))

\* pandas comparisons on a cell: every comparison with NaN is False, except
\* != which is True.
Ge(c, t) == ~IsNaN(c) /\ Val(c) >= t
Lt(c, t) == ~IsNaN(c) /\ Val(c) < t
Eq(c, v) == ~IsNaN(c) /\ Val(c) = v
IsIn(c, S) == ~IsNaN(c) /\ Val(c) \in S
Ne(c, v) == IsNaN(c) \/ Val(c) # v

\* ------------------------------------------------------------- segments
HighValueMin == 80
AtRiskBelow == 60
LoyalTiers == {"gold", "platinum"}
HomeCountry == "US"

high_value_mask(row) == Ge(row["engagement_score"], HighValueMin)
at_risk_mask(row) == Lt(row["engagement_score"], AtRiskBelow)
new_customers_mask(row) == Eq(row["customer_segment"], "newcomer")
loyal_customers_mask(row) == IsIn(row["loyalty_tier"], LoyalTiers)
international_mask(row) == Ne(row["country"], HomeCountry)

SegmentColumns == {"engagement_score", "customer_segment", "loyalty_tier", "country"}

\* Segments as an exclusive partition: a row already in high_value is kept out
\* of loyal_customers.
analyze_customer_segments_exclusive(d) ==
    IF \E col \in SegmentColumns : ~Has(d, col)
    THEN Raise("KeyError")
    ELSE Ok([high_value      |-> Filter(Whole(d), [k \in DOMAIN d.rows |-> high_value_mask(d.rows[k])]),
             at_risk         |-> Filter(Whole(d), [k \in DOMAIN d.rows |-> at_risk_mask(d.rows[k])]),
             new_customers   |-> Filter(Whole(d), [k \in DOMAIN d.rows |-> new_customers_mask(d.rows[k])]),
             loyal_customers |-> Filter(Whole(d), [k \in DOMAIN d.rows |->
                                    loyal_customers_mask(d.rows[k])
                                      /\ ~high_value_mask(d.rows[k])]),
             international   |-> Filter(Whole(d), [k \in DOMAIN d.rows |-> international_mask(d.rows[k])])])

\* analyze_customer_segments(df): df['<column>'] raises KeyError when the
\* file has no such column, before any segment is returned.
analyze_customer_segments(d) ==
    IF \E col \in SegmentColumns : ~Has(d, col)
    THEN Raise("KeyError")
    ELSE Ok([high_value      |-> Filter(Whole(d), [k \in DOMAIN d.rows |-> high_value_mask(d.rows[k])]),
             at_risk         |-> Filter(Whole(d), [k \in DOMAIN d.rows |-> at_risk_mask(d.rows[k])]),
             new_customers   |-> Filter(Whole(d), [k \in DOMAIN d.rows |-> new_customers_mask(d.rows[k])]),
             loyal_customers |-> Filter(Whole(d), [k \in DOMAIN d.rows |-> loyal_customers_mask(d.rows[k])]),
             international   |-> Filter(Whole(d), [k \in DOMAIN d.rows |-> international_mask(d.rows[k])])])

\* ------------------------------------------------------------- metrics
HighEngagementMin == 70
AvgOrderValue == 50

\* Python's n / d on plain numbers.
PyDiv(n, d) == IF d = 0 THEN Raise("ZeroDivisionError") ELSE Ok(Frac(n, d))

\* q * 100 for a quotient q.
Times100(q) == IF Raised(q) THEN q ELSE Ok(Frac(Get(q).num * 100, Get(q).den))

\* The rate without its total_customers > 0 guard.
conversion_rate_unguarded(high_engagement, total_customers) ==
    Times100(PyDiv(high_engagement, total_customers))

\* (high_engagement / total_customers) * 100 if total_customers > 0 else 0
conversion_rate(high_engagement, total_customers) ==
    IF total_customers > 0
    THEN Times100(PyDiv(high_engagement, total_customers))
    ELSE Ok(Frac(0, 1))

\* engagement_score > 70 instead of >= 70.
high_engagement_mask_strict(row) ==
    ~IsNaN(row["engagement_score"]) /\ Val(row["engagement_score"]) > HighEngagementMin

high_engagement_mask(row) == Ge(row["engagement_score"], HighEngagementMin)

RECURSIVE SumCells(_, _, _)
\* Series.sum(): NaN cells are skipped; the sum of nothing is 0.
SumCells(d, frame, col) ==
    IF frame = <<>> THEN 0
    ELSE LET c == d.rows[Head(frame)][col]
         IN (IF IsNaN(c) THEN 0 ELSE Val(c)) + SumCells(d, Tail(frame), col)

CountCells(d, frame, col) ==
    Len(SelectSeq(frame, LAMBDA k : ~IsNaN(d.rows[k][col])))

\* Series.mean(): NaN cells are skipped; the mean of nothing is NaN.
MeanCells(d, frame, col) ==
    IF CountCells(d, frame, col) = 0 THEN NaN
    ELSE Some(Frac(SumCells(d, frame, col), CountCells(d, frame, col)))

\* calculate_roi_metrics(df)
calculate_roi_metrics(d) ==
    LET total_customers == Len(d.rows)
        high_engagement == Len(Filter(Whole(d), [k \in DOMAIN d.rows |-> high_engagement_mask(d.rows[k])]))
        rate == conversion_rate(high_engagement, total_customers)
    IN IF Raised(rate) THEN rate
       ELSE Ok([total_customers      |-> total_customers,
                high_engagement_rate |-> Get(rate),
                avg_engagement       |-> MeanCells(d, Whole(d), "engagement_score"),
                revenue_potential    |-> SumCells(d, Whole(d), "purchase_history")
                                           * AvgOrderValue])


\* Line 338's revenue_potential / total_customers.  revenue_potential comes
\* from Series.sum(): a plain int for an object column (what read_csv gives a
\* table with no rows) and then 0 / 0 raises; a numpy number for a numeric
\* column and then 0 / 0 is nan.  Both are outcomes at d = 0.
SumDiv(n, d) ==
    IF d = 0 THEN {Raise("ZeroDivisionError"), Ok(NaN)} ELSE {Ok(Some(Frac(n, d)))}

\* <mean of the segment's engagement> if len(segment) > 0 else 0
guarded_mean(d, frame) ==
    IF Len(frame) > 0 THEN MeanCells(d, frame, "engagement_score") ELSE Some(Frac(0, 1))

\* ------------------------------------------------------------- generation
EmailCap == 5
SocialCap == 10
AdCap == 5
ABCap == 5

EmailSegments == {"All Customers", "High Value", "At Risk", "New Customers",
                  "Loyal Customers", "International"}
AdSegments == {"All Customers", "High Value", "New Customers", "Loyal Customers"}

\* segments[target_segment.lower().replace(" ", "_")]
SegmentByLabel(segs, label) ==
    CASE label = "High Value"      -> segs.high_value
      [] label = "At Risk"         -> segs.at_risk
      [] label = "New Customers"   -> segs.new_customers
      [] label = "Loyal Customers" -> segs.loyal_customers
      [] label = "International"   -> segs.international

\* target_df = df if target_segment == "All Customers" else segments[...]
TargetFrame(d, segs, label) ==
    IF label = "All Customers" THEN Whole(d) ELSE SegmentByLabel(segs, label)

\* What client.chat.completions.create can do: return a reply or raise.
Replies == {"no json here", "{\"other\": 1}", "{\"items\": []}"}
ClientErrors == {"APIConnectionError"}
Outcomes == { [ok |-> TRUE, text |-> r] : r \in Replies }
            \cup { [ok |-> FALSE, text |-> e] : e \in ClientErrors }

\* The prompt text, by what it embeds: the labels of the rows written into it.
Prompt(kind, frame) == [kind |-> kind, records |-> frame]

\* An entry that keeps a trimmed reply instead of the reply itself.
EmailEntryTrimmed(d, idx, reply) ==
    [idx |-> idx, customer |-> d.rows[idx]["customer_name"], email |-> "..."]

\* {'customer': customer['customer_name'], 'email': <reply content>}
\* idx is the loop's row label: the code does not store it, the model keeps it
\* to tell which target an entry belongs to (names may repeat).
EmailEntry(d, idx, reply) ==
    [idx |-> idx, customer |-> d.rows[idx]["customer_name"], email |-> reply]

\* f"Error generating email for {customer['customer_name']}: {e}"
EmailError(d, idx, e) ==
    [idx |-> idx, customer |-> d.rows[idx]["customer_name"], error |-> e]

\* ------------------------------------------------------------- state
VARIABLES
    df,                  \* the uploaded table
    pc,                  \* "idle", "email_loop", "done", "crashed"
    page,                \* the page the script run renders
    exception,           \* the exception that ended the run, or "none"
    metrics,             \* <<calculate_roi_metrics(df)>> once computed
    segments,            \* <<analyze_customer_segments(df)>> once computed
    avg_customer_value,  \* <<value>> of the dashboard's fourth metric
    roi_avg_engagement,  \* the ROI table's 'Avg Engagement' column
    target_df,           \* the frame the generation page targets
    it,                  \* position of the email loop in target_df.head(5)
    personalized_emails, \* the list the email loop collects
    errors,              \* st.error messages of the run, in order
    success_count,       \* <<n>> once st.success(f"Generated {n} ...") ran
    expanders,           \* the email expanders rendered, in order
    markdown,            \* replies rendered by the single-prompt pages
    outcomes,            \* what each client call of the run did, in order
    prompts              \* the prompts sent to the client in the run, in order

vars == <<df, pc, page, exception, metrics, segments, avg_customer_value,
          roi_avg_engagement, target_df, it, personalized_emails, errors,
          success_count, expanders, markdown, outcomes, prompts>>

\* The state of a script run before any page code has run.
Fresh ==
    /\ exception = "none"
    /\ metrics = <<>>
    /\ segments = <<>>
    /\ avg_customer_value = <<>>
    /\ roi_avg_engagement = <<>>
    /\ target_df = <<>>
    /\ it = 1
    /\ personalized_emails = <<>>
    /\ errors = <<>>
    /\ success_count = <<>>
    /\ expanders = <<>>
    /\ markdown = <<>>
    /\ outcomes = <<>>
    /\ prompts = <<>>

Init ==
    /\ df \in read_csv
    /\ pc = "idle"
    /\ page = "none"
    /\ Fresh


\* ------------------------------------------------------------- list and display calls
\* insert(0, x) instead of append(x).
list_prepend(list, x) == <<x>> \o list

\* list.append(x)
list_append(list, x) == Append(list, x)

\* An except block that swallows the failure.
st_error_swallowed(shown, msg) == shown

\* st.error(msg)
st_error(shown, msg) == Append(shown, msg)

\* An except block that retries: the failed row is taken again.
after_except_retry(k, n) == k

\* An except block that leaves the loop (break) after a failed call.
after_except_break(k, n) == n + 1

\* The except block of the email loop ends and the for loop takes the next
\* row: the position after a failed call at position k of n targets.
after_except(k, n) == k + 1

\* An exception leaves the script: Streamlit shows it and the run ends.
Crash(e) ==
    /\ pc' = "crashed"
    /\ exception' = e

\* ------------------------------------------------------------- page 1
\* Customer Analytics: the metrics row and the segment pie chart.
CustomerAnalytics ==
    /\ pc = "idle"
    /\ page' = "Customer Analytics"
    /\ LET m == calculate_roi_metrics(df)
           s == analyze_customer_segments(df)
       IN IF Raised(m)
          THEN Crash(m.exc) /\ UNCHANGED <<metrics, segments>>
          ELSE /\ metrics' = <<Get(m)>>
               /\ IF Raised(s)
                  THEN Crash(s.exc) /\ UNCHANGED segments
                  ELSE /\ segments' = <<Get(s)>>
                       /\ pc' = "done"
                       /\ UNCHANGED exception
    /\ UNCHANGED <<df, avg_customer_value, roi_avg_engagement, target_df, it,
                   personalized_emails, errors, success_count, expanders,
                   markdown, outcomes, prompts>>

\* ------------------------------------------------------------- page 5
\* Performance Dashboard: metrics, segments, Avg Customer Value, ROI table.
PerformanceDashboard ==
    /\ pc = "idle"
    /\ page' = "Performance Dashboard"
    /\ LET m == calculate_roi_metrics(df)
           s == analyze_customer_segments(df)
       IN IF Raised(m)
          THEN /\ Crash(m.exc)
               /\ UNCHANGED <<metrics, segments, avg_customer_value, roi_avg_engagement>>
          ELSE /\ metrics' = <<Get(m)>>
               /\ IF Raised(s)
                  THEN /\ Crash(s.exc)
                       /\ UNCHANGED <<segments, avg_customer_value, roi_avg_engagement>>
                  ELSE /\ segments' = <<Get(s)>>
                       /\ \E q \in SumDiv(Get(m).revenue_potential, Get(m).total_customers) :
                            IF Raised(q)
                            THEN /\ Crash(q.exc)
                                 /\ UNCHANGED <<avg_customer_value, roi_avg_engagement>>
                            ELSE /\ avg_customer_value' = <<Get(q)>>
                                 /\ roi_avg_engagement' =
                                      << guarded_mean(df, Get(s).high_value),
                                         guarded_mean(df, Get(s).loyal_customers),
                                         guarded_mean(df, Get(s).new_customers),
                                         guarded_mean(df, Get(s).at_risk) >>
                                 /\ pc' = "done"
                                 /\ UNCHANGED exception
    /\ UNCHANGED <<df, target_df, it, personalized_emails, errors,
                   success_count, expanders, markdown, outcomes, prompts>>

\* ------------------------------------------------------------- page 2
\* The "Generate AI Email Campaign" button: segments, target_df, empty list.
EmailCampaigns ==
    /\ pc = "idle"
    /\ page' = "Email Campaigns"
    /\ \E target_segment \in EmailSegments :
         LET s == analyze_customer_segments(df)
         IN IF Raised(s)
            THEN Crash(s.exc) /\ UNCHANGED <<segments, target_df>>
            ELSE /\ segments' = <<Get(s)>>
                 /\ target_df' = TargetFrame(df, Get(s), target_segment)
                 /\ pc' = "email_loop"
                 /\ UNCHANGED exception
    /\ it' = 1
    /\ personalized_emails' = <<>>
    /\ UNCHANGED <<df, metrics, avg_customer_value, roi_avg_engagement, errors,
                   success_count, expanders, markdown, outcomes, prompts>>

\* The rows the email loop iterates: target_df.head(5).iterrows().
EmailTargets == head(target_df, EmailCap)

\* One iteration of the loop whose client call returns a reply.
EmailCallReturns ==
    /\ pc = "email_loop"
    /\ it <= Len(EmailTargets)
    /\ \E reply \in Replies :
         LET idx == EmailTargets[it]
         IN /\ prompts' = Append(prompts, Prompt("email", <<idx>>))
            /\ outcomes' = Append(outcomes, [ok |-> TRUE, text |-> reply])
            /\ personalized_emails' =
                 list_append(personalized_emails, EmailEntry(df, idx, reply))
    /\ it' = it + 1
    /\ UNCHANGED <<df, pc, page, exception, metrics, segments, avg_customer_value,
                   roi_avg_engagement, target_df, errors, success_count,
                   expanders, markdown>>


\* One iteration of the loop whose client call raises: st.error, next row.
EmailCallRaises ==
    /\ pc = "email_loop"
    /\ it <= Len(EmailTargets)
    /\ \E e \in ClientErrors :
         LET idx == EmailTargets[it]
         IN /\ prompts' = Append(prompts, Prompt("email", <<idx>>))
            /\ outcomes' = Append(outcomes, [ok |-> FALSE, text |-> e])
            /\ errors' = st_error(errors, EmailError(df, idx, e))
    /\ it' = after_except(it, Len(EmailTargets))
    /\ UNCHANGED <<df, pc, page, exception, metrics, segments, avg_customer_value,
                   roi_avg_engagement, target_df, personalized_emails,
                   success_count, expanders, markdown>>

\* After the loop: st.success with the count, one expander per entry.
EmailDisplay ==
    /\ pc = "email_loop"
    /\ it > Len(EmailTargets)
    /\ success_count' = <<Len(personalized_emails)>>
    /\ expanders' = personalized_emails
    /\ pc' = "done"
    /\ UNCHANGED <<df, page, exception, metrics, segments, avg_customer_value,
                   roi_avg_engagement, target_df, it, personalized_emails, errors,
                   markdown, outcomes, prompts>>

\* ------------------------------------------------------------- pages 3, 4, 6
\* try: create(prompt); st.markdown(reply)  except: st.error(f"Error: {e}")
SinglePrompt(prompt) ==
    /\ prompts' = Append(prompts, prompt)
    /\ \E o \in Outcomes :
         /\ outcomes' = Append(outcomes, o)
         /\ IF o.ok
            THEN markdown' = Append(markdown, o.text) /\ UNCHANGED errors
            ELSE errors' = st_error(errors, [idx |-> 0, customer |-> NaN, error |-> o.text])
                 /\ UNCHANGED markdown
    /\ pc' = "done"
    /\ UNCHANGED exception

\* Social Media Content: one prompt over df.head(10).
SocialMediaContent ==
    /\ pc = "idle"
    /\ page' = "Social Media Content"
    /\ SinglePrompt(Prompt("social", head(Whole(df), SocialCap)))
    /\ UNCHANGED <<df, metrics, segments, avg_customer_value, roi_avg_engagement,
                   target_df, it, personalized_emails, success_count, expanders>>

\* Ad Copy Generator: segments, target_df, one prompt over target_df.head(5).
AdCopyGenerator ==
    /\ pc = "idle"
    /\ page' = "Ad Copy Generator"
    /\ \E target_segment \in AdSegments :
         LET s == analyze_customer_segments(df)
         IN IF Raised(s)
            THEN /\ Crash(s.exc)
                 /\ UNCHANGED <<segments, target_df, prompts, outcomes, markdown, errors>>
            ELSE /\ segments' = <<Get(s)>>
                 /\ target_df' = TargetFrame(df, Get(s), target_segment)
                 /\ SinglePrompt(Prompt("ad", head(target_df', AdCap)))
    /\ UNCHANGED <<df, metrics, avg_customer_value, roi_avg_engagement, it,
                   personalized_emails, success_count, expanders>>

\* A/B Testing Lab: one prompt over df.head(5).
ABTestingLab ==
    /\ pc = "idle"
    /\ page' = "A/B Testing Lab"
    /\ SinglePrompt(Prompt("abtest", head(Whole(df), ABCap)))
    /\ UNCHANGED <<df, metrics, segments, avg_customer_value, roi_avg_engagement,
                   target_df, it, personalized_emails, success_count, expanders>>

\* The next interaction reruns the script from the top on the same upload.
Rerun ==
    /\ pc \in {"done", "crashed"}
    /\ pc' = "idle"
    /\ page' = "none"
    /\ df' = df
    /\ exception' = "none"
    /\ metrics' = <<>>
    /\ segments' = <<>>
    /\ avg_customer_value' = <<>>
    /\ roi_avg_engagement' = <<>>
    /\ target_df' = <<>>
    /\ it' = 1
    /\ personalized_emails' = <<>>
    /\ errors' = <<>>
    /\ success_count' = <<>>
    /\ expanders' = <<>>
    /\ markdown' = <<>>
    /\ outcomes' = <<>>
    /\ prompts' = <<>>

Next ==
    \/ CustomerAnalytics
    \/ PerformanceDashboard
    \/ EmailCampaigns
    \/ EmailCallReturns
    \/ EmailCallRaises
    \/ EmailDisplay
    \/ SocialMediaContent
    \/ AdCopyGenerator
    \/ ABTestingLab
    \/ Rerun

Spec == Init /\ [][Next]_vars


\* ------------------------------------------------------------- properties
\* A generation batch of the email page is running or has ended.
InBatch == page = "Email Campaigns" /\ pc \in {"email_loop", "done"}
BatchDone == page = "Email Campaigns" /\ pc = "done"

\* Label k has an entry in the list.
HasEntry(list, k) == \E j \in 1..Len(list) : list[j].idx = k
EntriesOf(list, k) == { j \in 1..Len(list) : list[j].idx = k }

\* Number of client calls of the run that returned / raised.
Returned == Cardinality({ k \in 1..Len(outcomes) : outcomes[k].ok })
Failed == Cardinality({ k \in 1..Len(outcomes) : ~outcomes[k].ok })

\* C1: in the email loop a failed client call for one target neither aborts
\* the batch nor discards collected results: the calls made so far are for the
\* targets 1..it-1 in order, whatever failed among them; when the batch ends
\* every target was attempted and no exception left the loop; and every
\* target whose call returned has its entry in the collection (and in the
\* expanders once rendered).
C1_FailureNeverAbortsBatch ==
    InBatch =>
      /\ exception = "none"
      /\ Len(outcomes) = it - 1
      /\ Len(prompts) = Len(outcomes)
      /\ \A k \in 1..Len(outcomes) : prompts[k].records = <<EmailTargets[k]>>
      /\ pc = "done" => Len(outcomes) = Len(EmailTargets)
      /\ \A k \in 1..Len(outcomes) :
           outcomes[k].ok => HasEntry(personalized_emails, EmailTargets[k])
      /\ pc = "done" =>
           \A k \in 1..Len(outcomes) :
             outcomes[k].ok => HasEntry(expanders, EmailTargets[k])

\* A finished batch of three or more targets: success, failure, success.
C1_Witness ==
    /\ BatchDone
    /\ \E a, b, c \in 1..Len(outcomes) :
         /\ a < b /\ b < c
         /\ outcomes[a].ok /\ ~outcomes[b].ok /\ outcomes[c].ok
         /\ HasEntry(expanders, EmailTargets[a])
         /\ HasEntry(expanders, EmailTargets[c])

\* C2 as stated: the collection of a finished batch has exactly one entry per
\* requested target, the failed targets holding a failure entry.
C2_OneEntryPerTarget ==
    BatchDone =>
      /\ Len(expanders) = Len(EmailTargets)
      /\ \A k \in 1..Len(EmailTargets) : expanders[k].idx = EmailTargets[k]

\* C2 amended: the collection of a finished batch holds exactly one entry for
\* each requested target whose call returned and none for a target whose call
\* raised; a raised call is recorded as exactly one st.error message naming
\* the customer and the error detail; st.success reports the number of
\* entries.  So entries + error messages = requested targets.
C2_EntryPerSuccessErrorPerFailure ==
    BatchDone =>
      /\ Len(expanders) + Len(errors) = Len(EmailTargets)
      /\ Len(expanders) = Returned
      /\ success_count = <<Returned>>
      /\ \A k \in 1..Len(EmailTargets) :
           LET idx == EmailTargets[k]
           IN IF outcomes[k].ok
              THEN /\ Cardinality(EntriesOf(expanders, idx)) = 1
                   /\ EntriesOf(errors, idx) = {}
              ELSE /\ EntriesOf(expanders, idx) = {}
                   /\ Cardinality(EntriesOf(errors, idx)) = 1
                   /\ \A j \in EntriesOf(errors, idx) :
                        /\ errors[j].customer = df.rows[idx]["customer_name"]
                        /\ errors[j].error = outcomes[k].text

\* Three targets, the call for the second raised: two entries, one message.
C2_Witness ==
    /\ BatchDone
    /\ Len(EmailTargets) = 3
    /\ outcomes[1].ok /\ ~outcomes[2].ok /\ outcomes[3].ok
    /\ Len(expanders) = 2
    /\ Len(errors) = 1

\* The replies that do not decode into the expected structure: no JSON
\* object at all, or a JSON object without the "items" key.
Undecodable(reply) == reply \in {"no json here", "{\"other\": 1}"}

\* C3 as stated: an undecodable reply is recorded for its target as a failure
\* carrying the raw text and is never reported as a generated result.
C3_UndecodableIsParseFailure ==
    InBatch =>
      /\ \A j \in 1..Len(personalized_emails) :
           ~Undecodable(personalized_emails[j].email)
      /\ \A k \in 1..Len(outcomes) :
           (outcomes[k].ok /\ Undecodable(outcomes[k].text)) =>
             \E j \in EntriesOf(errors, EmailTargets[k]) :
               errors[j].error = outcomes[k].text

\* C3 amended: the email loop does not decode the reply.  Whatever text the
\* client returns, decodable or not, is stored unmodified as the email of its
\* target's entry, a generated result; no failure is recorded for it and
\* nothing is raised.
C3_ReplyStoredUnparsed ==
    InBatch =>
      /\ exception = "none"
      /\ \A k \in 1..Len(outcomes) :
           outcomes[k].ok =>
             /\ \A j \in EntriesOf(personalized_emails, EmailTargets[k]) :
                  personalized_emails[j].email = outcomes[k].text
             /\ EntriesOf(personalized_emails, EmailTargets[k]) # {}
             /\ EntriesOf(errors, EmailTargets[k]) = {}
      /\ Len(errors) = Failed

\* A finished batch shows "no json here" as a generated email.
C3_Witness ==
    /\ BatchDone
    /\ \E j \in 1..Len(expanders) : expanders[j].email = "no json here"
    /\ \E j \in 1..Len(expanders) : expanders[j].email = "{\"other\": 1}"


\* The frame a prompt of the given kind draws its rows from, and its cap.
SourceOf(kind) ==
    IF kind \in {"email", "ad"} THEN target_df ELSE Whole(df)
CapOf(kind) ==
    CASE kind = "email"  -> EmailCap
      [] kind = "social" -> SocialCap
      [] kind = "ad"     -> AdCap
      [] kind = "abtest" -> ABCap

\* The labels embedded by all the prompts of the run, in order.
RECURSIVE Embedded(_)
Embedded(ps) == IF ps = <<>> THEN <<>> ELSE Head(ps).records \o Embedded(Tail(ps))

\* C4: whatever the size of the table, the prompts of a run embed no more
\* rows than the page's cap (5 for email, ad copy and A/B test, 10 for social
\* media), the rows embedded are the first rows of the page's frame in input
\* order, an email prompt embeds one row, and once the page is done a frame
\* with at least cap rows has exactly cap rows embedded.
C4_PromptsEmbedFirstCapRows ==
    \A p \in 1..Len(prompts) :
      LET kind == prompts[p].kind
          all == Embedded(prompts)
      IN /\ Len(all) <= CapOf(kind)
         /\ \A j \in 1..Len(all) : all[j] = SourceOf(kind)[j]
         /\ kind = "email" => Len(prompts[p].records) = 1
         /\ kind # "email" => Len(prompts) = 1
         /\ (pc = "done" /\ Len(SourceOf(kind)) >= CapOf(kind)) => Len(all) = CapOf(kind)
         /\ (pc = "done" /\ Len(SourceOf(kind)) < CapOf(kind)) =>
              Len(all) = Len(SourceOf(kind))

\* A social media prompt over a table of more than 10 rows embeds rows 1..10.
C4_Witness ==
    /\ page = "Social Media Content"
    /\ pc = "done"
    /\ Len(df.rows) > SocialCap
    /\ Len(prompts) = 1
    /\ prompts[1].records = [k \in 1..SocialCap |-> k]

\* The pages that compute the metrics snapshot, once their run has ended.
MetricsPageRan ==
    /\ page \in {"Customer Analytics", "Performance Dashboard"}
    /\ pc \in {"done", "crashed"}

\* C5: on a table with no rows calculate_roi_metrics returns a snapshot (it
\* does not raise, so no division by zero) with total_customers = 0 and
\* high_engagement_rate = 0.
C5_EmptyMetrics ==
    (MetricsPageRan /\ Len(df.rows) = 0) =>
      /\ metrics # <<>>
      /\ metrics[1].total_customers = 0
      /\ metrics[1].high_engagement_rate.num = 0

\* Customer Analytics rendered for a table with a header and no rows.
C5_Witness ==
    /\ page = "Customer Analytics"
    /\ pc = "done"
    /\ Len(df.rows) = 0
    /\ metrics # <<>>
    /\ metrics[1].total_customers = 0

Zero == Some(Frac(0, 1))

\* C6 as stated: with zero rows (and every column present) the dashboard run
\* ends without an error, Avg Customer Value and the average engagement are
\* the neutral value 0, and every segment is empty.
C6_EmptyDashboardNeutral ==
    (/\ page = "Performance Dashboard"
     /\ pc \in {"done", "crashed"}
     /\ df.columns = AllColumns
     /\ Len(df.rows) = 0) =>
      /\ exception = "none"
      /\ avg_customer_value = <<Zero>>
      /\ metrics # <<>>
      /\ metrics[1].avg_engagement = Zero
      /\ segments # <<>>
      /\ \A name \in DOMAIN segments[1] : segments[1][name] = <<>>

\* Rows of the table whose engagement_score is a number >= 70.
HighEngagementRows ==
    { k \in 1..Len(df.rows) :
        /\ df.rows[k]["engagement_score"] # <<>>
        /\ df.rows[k]["engagement_score"][1] >= 70 }

\* C7 as stated: high_engagement_rate is the fraction count / total, between
\* 0 and 1, and 0 when there are no rows.
C7_RateIsFraction ==
    (MetricsPageRan /\ metrics # <<>>) =>
      LET rate == metrics[1].high_engagement_rate
          total == Len(df.rows)
      IN IF total = 0 THEN rate.num = 0
         ELSE /\ rate.num * total = Cardinality(HighEngagementRows) * rate.den
              /\ rate.num <= rate.den

\* C7 amended: high_engagement_rate is the percentage 100 * count / total,
\* between 0 and 100, where count is the number of rows with engagement_score
\* >= 70; it is 0 when there are no rows.
C7_RateIsPercentage ==
    (MetricsPageRan /\ metrics # <<>>) =>
      LET rate == metrics[1].high_engagement_rate
          total == Len(df.rows)
      IN IF total = 0 THEN rate.num = 0
         ELSE /\ rate.num * total = 100 * Cardinality(HighEngagementRows) * rate.den
              /\ rate.num <= 100 * rate.den
              /\ metrics[1].total_customers = total

\* A table where the row at exactly 70 counts and another row does not: 50%.
C7_Witness ==
    /\ MetricsPageRan
    /\ metrics # <<>>
    /\ Len(df.rows) = 2
    /\ \E k \in 1..2 : df.rows[k]["engagement_score"] = <<70>>
    /\ metrics[1].high_engagement_rate = [num |-> 50, den |-> 1]


\* The pages that call analyze_customer_segments, once the call was made.
SegmentsPageRan ==
    /\ page \in {"Customer Analytics", "Performance Dashboard",
                 "Email Campaigns", "Ad Copy Generator"}
    /\ pc \in {"email_loop", "done", "crashed"}

InFrame(frame, k) == \E j \in 1..Len(frame) : frame[j] = k

\* Row k has no value for the column: no such column, or an empty cell.
Lacks(k, col) == col \notin df.columns \/ df.rows[k][col] = <<>>

\* C8 as stated, for the tables that have every column (a table without
\* the country column makes analyze_customer_segments raise KeyError, which
\* the claim excludes too): a row lacking the field a segment's predicate
\* reads is not in that segment; in particular a row with no country is not
\* in international.
C8_MissingFieldExcluded ==
    (SegmentsPageRan /\ df.columns = AllColumns) =>
      /\ exception # "KeyError"
      /\ segments # <<>>
      /\ \A k \in 1..Len(df.rows) :
           /\ Lacks(k, "engagement_score") => ~InFrame(segments[1].high_value, k)
           /\ Lacks(k, "engagement_score") => ~InFrame(segments[1].at_risk, k)
           /\ Lacks(k, "customer_segment") => ~InFrame(segments[1].new_customers, k)
           /\ Lacks(k, "loyalty_tier") => ~InFrame(segments[1].loyal_customers, k)
           /\ Lacks(k, "country") => ~InFrame(segments[1].international, k)

\* Strictly increasing labels: a subset of the rows, in input order, no repeats.
Increasing(frame) == \A a, b \in 1..Len(frame) : a < b => frame[a] < frame[b]

TargetPos(idx) == CHOOSE k \in 1..Len(EmailTargets) : EmailTargets[k] = idx

\* C10: the entries of a batch's collection are in the order of their targets
\* in the input: an entry placed earlier belongs to a target earlier in
\* target_df.head(5), whichever calls failed; the expanders rendered from
\* the collection keep that order.
C10_EntriesInTargetOrder ==
    InBatch =>
      /\ \A a, b \in 1..Len(personalized_emails) :
           a < b => TargetPos(personalized_emails[a].idx)
                      < TargetPos(personalized_emails[b].idx)
      /\ \A a, b \in 1..Len(expanders) :
           a < b => TargetPos(expanders[a].idx) < TargetPos(expanders[b].idx)

\* Two entries with a failed target between them.
C10_Witness ==
    /\ BatchDone
    /\ Len(expanders) >= 2
    /\ \E k \in 1..Len(outcomes) :
         /\ ~outcomes[k].ok
         /\ TargetPos(expanders[1].idx) < k
         /\ k < TargetPos(expanders[2].idx)

\* The client calls of the run made for the label, by position in prompts.
CallsFor(idx) == { p \in 1..Len(prompts) : prompts[p].records = <<idx>> }

\* Every client call of a batch so far: one per processed target, none ahead.
OneCallPerTarget ==
    InBatch =>
      /\ \A k \in 1..Len(EmailTargets) :
           Cardinality(CallsFor(EmailTargets[k])) = (IF k < it THEN 1 ELSE 0)
      /\ \A k \in 1..Len(EmailTargets) :
           k < it =>
             /\ CallsFor(EmailTargets[k]) = {k}
             /\ Len(outcomes) >= k
             /\ ~outcomes[k].ok =>
                  Cardinality(EntriesOf(errors, EmailTargets[k])) = 1
      /\ Len(errors) = Failed
      /\ Len(prompts) = Len(outcomes)

\* A step of a batch makes at most one client call; the call is for the
\* target right after the last one called, it has returned or raised by the
\* end of the step, and the calls made before are untouched.
OneCallPerStep ==
    (InBatch /\ InBatch') =>
      \/ prompts' = prompts /\ outcomes' = outcomes
      \/ /\ Len(prompts') = Len(prompts) + 1
         /\ Len(outcomes') = Len(outcomes) + 1
         /\ SubSeq(prompts', 1, Len(prompts)) = prompts
         /\ SubSeq(outcomes', 1, Len(outcomes)) = outcomes
         /\ Len(prompts') <= Len(EmailTargets)
         /\ prompts'[Len(prompts')].records = <<EmailTargets[Len(prompts')]>>

\* C11: within one batch the client is called exactly once per processed
\* target, whether the call returns or raises: a failed call is not retried
\* and is recorded as one error message, and the calls are made one at a
\* time in target order, the call for target k+1 only after the call for
\* target k has returned or raised.
C11_OneCallPerTargetInOrder ==
    /\ []OneCallPerTarget
    /\ [][OneCallPerStep]_vars

\* A finished batch where a call raised and the next target's call returned:
\* one call each, one error message for the failed one.
C11_Witness ==
    /\ BatchDone
    /\ \E k \in 1..(Len(outcomes) - 1) :
         /\ ~outcomes[k].ok
         /\ outcomes[k + 1].ok
         /\ CallsFor(EmailTargets[k]) = {k}
         /\ CallsFor(EmailTargets[k + 1]) = {k + 1}
         /\ Cardinality(EntriesOf(errors, EmailTargets[k])) = 1

====
